---- MODULE Spec2Model ----
(***************************************************************************)
(* A model of the three command-line wrappers of the repository:           *)
(*   - apps/api/src/docling/python/docling_ocr_wrapper.py  (the OCR script) *)
(*   - apps/api/src/docling/python/docling_wrapper.py      (the API script) *)
(*   - scripts/docling_wrapper.py                          (the CLI script) *)
(* Strings are TLA+ strings (Len, \o and SubSeq act on them as on Python    *)
(* strings); a Python dict is a record, a missing key a missing field.     *)
(* Confidence values are in hundredths (0.3 is 30).                        *)
(***************************************************************************)
EXTENDS Integers, Sequences, FiniteSets, TLC

VARIABLES
    script,         \* which program runs: "lines", "ocr", "api" or "cli"
    argv,           \* sys.argv[1:]
    env,            \* what is installed and how the libraries behave
    doc,            \* the document on disk
    pc,             \* position of the running program
    detections,     \* result[0] of one OCR call (line-reconstruction run)
    sorted_result,  \* sorted(detections, key=y)
    idx,            \* number of items of sorted_result already consumed
    current_y,      \* the line anchor: None or <<y>>
    current_line,   \* texts of the line being built
    page_lines,     \* completed lines of the page
    line_of,        \* history: for each consumed item, its line number (0: dropped)
    page_num,       \* convert_with_ocr: index of the next page of the OCR loop
    page_count,     \* convert_with_ocr: len(pdf)
    all_text,       \* convert_with_ocr: the accumulated list of text pieces
    markdown,       \* convert_with_ocr: the markdown being assembled
    ocr_markdown,   \* history: "\n".join(all_text), before the supplement rule
    embedded_text,  \* convert_with_ocr: the embedded-text sample
    sample_read,    \* history: the sample pass ended without an exception
    embedded_result,\* __main__: what extract_text_blocks returned (None: not run)
    handles,        \* number of document handles open
    options,        \* the parsed options / topics argument
    result,         \* __main__: result
    stdout,         \* the JSON documents printed to standard output
    stderr,         \* the diagnostics printed to standard error
    exit_code,      \* None while running, <<code>> once the process has ended
    exc,            \* the message of the exception being handled by __main__
    returns,        \* history: every value a conversion function returned
    propagated      \* history: the functions an exception has escaped from

lineVars == <<detections, sorted_result, idx, current_y, current_line,
              page_lines, line_of>>

inputVars == <<script, argv, env, doc>>

ocrVars == <<page_num, page_count, all_text, markdown, ocr_markdown,
             embedded_text, sample_read, embedded_result, handles>>

ioVars == <<stdout, stderr, exit_code, exc>>

histVars == <<returns, propagated>>

vars == <<inputVars, pc, lineVars, ocrVars, options, result, ioVars, histVars>>

(***************************************************************************)
(* Bounds of the model                                                     *)
(***************************************************************************)
MaxDets == 3

MaxPages == 2

(***************************************************************************)
(* Python helpers                                                          *)
(***************************************************************************)
None == <<>>

Whitespace == {" ", "\n", "\t"}

Abs(n) == IF n < 0 THEN 0 - n ELSE n

CharAt(s, i) == SubSeq(s, i, i)

\* index of the first non-whitespace character at or after i (Len(s)+1: none)
RECURSIVE FirstInk(_, _)
FirstInk(s, i) ==
    IF i > Len(s) \/ CharAt(s, i) \notin Whitespace THEN i ELSE FirstInk(s, i + 1)

\* index of the last non-whitespace character at or before i (0: none)
RECURSIVE LastInk(_, _)
LastInk(s, i) ==
    IF i < 1 \/ CharAt(s, i) \notin Whitespace THEN i ELSE LastInk(s, i - 1)

\* str.strip()
Strip(s) == SubSeq(s, FirstInk(s, 1), LastInk(s, Len(s)))

\* sep.join(parts)
RECURSIVE Join(_, _)
Join(sep, parts) ==
    IF parts = <<>> THEN ""
    ELSE IF Len(parts) = 1 THEN parts[1]
    ELSE parts[1] \o sep \o Join(sep, Tail(parts))

(***************************************************************************)
(* Line reconstruction (convert_with_ocr, the body of the page loop)       *)
(***************************************************************************)
LineThreshold == 15

MinConfidence == 30

\* the filter of the loop body: confidence >= min_confidence and text.strip()
Qualifies(item) == item.confidence >= MinConfidence /\ Strip(item.text) # ""

\* sorted(detections, key=lambda x: x[0][0][1]): stable, ascending in y
InsertByY(s, item) ==
    LET n == Cardinality({i \in 1..Len(s) : s[i].y <= item.y})
    IN  SubSeq(s, 1, n) \o <<item>> \o SubSeq(s, n + 1, Len(s))

RECURSIVE SortedByY(_)
SortedByY(s) ==
    IF s = <<>> THEN <<>>
    ELSE InsertByY(SortedByY(SubSeq(s, 1, Len(s) - 1)), s[Len(s)])

LineStart == [page_lines |-> <<>>, current_y |-> None, current_line |-> <<>>,
              line_of |-> <<>>]

\* one iteration of "for item in sorted_result"
LineStepAnchorAlways(st, item) ==
    IF Qualifies(item)
    THEN LET y_pos == item.y
             newline == st.current_y # None
                        /\ Abs(y_pos - st.current_y[1]) > LineThreshold
             lines == IF newline /\ st.current_line # <<>>
                      THEN Append(st.page_lines, Join(" ", st.current_line))
                      ELSE st.page_lines
         IN  [page_lines |-> lines,
              current_y |-> IF newline \/ st.current_y = None
                            THEN <<y_pos>> ELSE st.current_y,
              current_line |-> Append(IF newline THEN <<>> ELSE st.current_line,
                                      Strip(item.text)),
              line_of |-> Append(st.line_of, Len(lines) + 1)]
    ELSE [st EXCEPT !.current_y = IF @ = None THEN <<item.y>> ELSE @,
                    !.line_of = Append(@, 0)]

LineStepAtLeast(st, item) ==
    IF Qualifies(item)
    THEN LET y_pos == item.y
             newline == st.current_y # None
                        /\ Abs(y_pos - st.current_y[1]) >= LineThreshold
             lines == IF newline /\ st.current_line # <<>>
                      THEN Append(st.page_lines, Join(" ", st.current_line))
                      ELSE st.page_lines
         IN  [page_lines |-> lines,
              current_y |-> IF newline \/ st.current_y = None
                            THEN <<y_pos>> ELSE st.current_y,
              current_line |-> Append(IF newline THEN <<>> ELSE st.current_line,
                                      Strip(item.text)),
              line_of |-> Append(st.line_of, Len(lines) + 1)]
    ELSE [st EXCEPT !.line_of = Append(@, 0)]

LineStep(st, item) ==
    IF Qualifies(item)
    THEN LET y_pos == item.y
             newline == st.current_y # None
                        /\ Abs(y_pos - st.current_y[1]) > LineThreshold
             lines == IF newline /\ st.current_line # <<>>
                      THEN Append(st.page_lines, Join(" ", st.current_line))
                      ELSE st.page_lines
         IN  [page_lines |-> lines,
              current_y |-> IF newline \/ st.current_y = None
                            THEN <<y_pos>> ELSE st.current_y,
              current_line |-> Append(IF newline THEN <<>> ELSE st.current_line,
                                      Strip(item.text)),
              line_of |-> Append(st.line_of, Len(lines) + 1)]
    ELSE [st EXCEPT !.line_of = Append(@, 0)]

\* the whole loop over a list of items
RECURSIVE LineLoop(_, _)
LineLoop(st, items) ==
    IF items = <<>> THEN st ELSE LineLoop(LineStep(st, Head(items)), Tail(items))

\* "if current_line: page_lines.append(...)" after the loop
FlushLine(st) ==
    IF st.current_line # <<>>
    THEN Append(st.page_lines, Join(" ", st.current_line))
    ELSE st.page_lines

\* the page_lines of one page's detections
ReconstructLines(dets) == FlushLine(LineLoop(LineStart, SortedByY(dets)))

(***************************************************************************)
(* The line-reconstruction run: one page's detections, item by item        *)
(***************************************************************************)
Ys == {0, 15, 16}

Items ==
    {[y |-> y, text |-> t, confidence |-> 90] : y \in Ys, t \in {"a", " b ", " "}}
    \cup {[y |-> y, text |-> "c", confidence |-> 29] : y \in Ys}
    \cup {[y |-> y, text |-> "d", confidence |-> 30] : y \in Ys}

DetectionLists == UNION {[1..n -> Items] : n \in 0..MaxDets}

\* the variables of the line-reconstruction run, before it starts
LinesIdle ==
    /\ sorted_result = <<>>
    /\ idx = 0
    /\ current_y = None
    /\ current_line = <<>>
    /\ page_lines = <<>>
    /\ line_of = <<>>

\* the variables of a script run, before it starts
ProgramIdle ==
    /\ page_num = 0
    /\ page_count = 0
    /\ all_text = <<>>
    /\ markdown = ""
    /\ ocr_markdown = ""
    /\ embedded_text = ""
    /\ sample_read = FALSE
    /\ embedded_result = None
    /\ handles = 0
    /\ options = None
    /\ result = None
    /\ stdout = <<>>
    /\ stderr = <<>>
    /\ exit_code = None
    /\ exc = None
    /\ returns = <<>>
    /\ propagated = {}

LinesInit ==
    /\ script = "lines"
    /\ argv = <<>>
    /\ env = None
    /\ doc = None
    /\ pc = "lines_sort"
    /\ detections \in DetectionLists
    /\ LinesIdle
    /\ ProgramIdle

LoopState == [page_lines |-> page_lines, current_y |-> current_y,
              current_line |-> current_line, line_of |-> line_of]

SortDetections ==
    /\ pc = "lines_sort"
    /\ sorted_result' = SortedByY(detections)
    /\ pc' = "lines_loop"
    /\ UNCHANGED <<detections, idx, current_y, current_line, page_lines, line_of>>
    /\ UNCHANGED <<inputVars, ocrVars, options, result, ioVars, histVars>>

LineItem ==
    /\ pc = "lines_loop"
    /\ idx < Len(sorted_result)
    /\ LET st == LineStep(LoopState, sorted_result[idx + 1])
       IN  /\ page_lines' = st.page_lines
           /\ current_y' = st.current_y
           /\ current_line' = st.current_line
           /\ line_of' = st.line_of
    /\ idx' = idx + 1
    /\ UNCHANGED <<pc, detections, sorted_result>>
    /\ UNCHANGED <<inputVars, ocrVars, options, result, ioVars, histVars>>

LineFlush ==
    /\ pc = "lines_loop"
    /\ idx = Len(sorted_result)
    /\ page_lines' = FlushLine(LoopState)
    /\ pc' = "lines_done"
    /\ UNCHANGED <<detections, sorted_result, idx, current_y, current_line, line_of>>
    /\ UNCHANGED <<inputVars, ocrVars, options, result, ioVars, histVars>>

LinesNext == SortDetections \/ LineItem \/ LineFlush

SpecLines == LinesInit /\ [][LinesNext]_vars

(***************************************************************************)
(* Documents, pages and environments of the OCR script                     *)
(***************************************************************************)
X10 == "xxxxxxxxxx"

X50 == X10 \o X10 \o X10 \o X10 \o X10

X100 == X50 \o X50

X178 == X100 \o X50 \o X10 \o X10 \o "xxxxxxxx"

X184 == X178 \o "xxxxxx"

X500 == X100 \o X100 \o X100 \o X100 \o X100

\* what the OCR pass meets on a page: get_pixmap raising, the engine call
\* raising, a falsy result, a detection the loop cannot read, or detections
Ocr(kind, dets) == [kind |-> kind, dets |-> dets]

Det(y, text, confidence) == [y |-> y, text |-> text, confidence |-> confidence]

\* a page: what OCR meets on it, and its embedded text (or get_text raising)
Page(ocr, text, text_raises) == [ocr |-> ocr, text |-> text, text_raises |-> text_raises]

PageKinds ==
    { Page(Ocr("raster_raises", <<>>), X50 \o X10 \o "\n", FALSE),
      Page(Ocr("ocr_raises", <<>>), X500 \o "\n", FALSE),
      Page(Ocr("no_result", <<>>), " \n", FALSE),
      Page(Ocr("malformed", <<>>), X50 \o X10 \o "\n", FALSE),
      Page(Ocr("detections", <<Det(0, "zz", 10), Det(40, "  ", 90)>>), "", TRUE),
      Page(Ocr("detections", <<Det(0, "ab", 90)>>), X500 \o "\n", FALSE),
      Page(Ocr("detections", <<Det(0, "ab", 90)>>), X50 \o X10 \o "\n", FALSE),
      Page(Ocr("detections", <<Det(40, "cd", 90), Det(0, "ab", 90), Det(5, "zz", 10)>>),
           "", FALSE),
      Page(Ocr("detections", <<Det(0, X100, 90)>>), X500 \o "\n", FALSE),
      Page(Ocr("detections", <<Det(0, X100, 90)>>), X178 \o "\n", FALSE),
      Page(Ocr("detections", <<Det(0, X184, 90)>>), X500 \o "\n", FALSE),
      Page(Ocr("detections", <<Det(0, X184 \o X100, 90)>>), X500 \o "\n", FALSE) }

SamplePages == 3

\* documents longer than the sample pass reads
LongDocPages ==
    [1..(SamplePages + 1) ->
        { Page(Ocr("no_result", <<>>), " \n", FALSE),
          Page(Ocr("detections", <<Det(0, "ab", 90)>>), X500 \o "\n", FALSE) }]

Documents ==
    {[openable |-> FALSE, pages |-> <<>>]}
    \cup {[openable |-> TRUE, pages |-> ps] :
            ps \in UNION {[1..n -> PageKinds] : n \in 0..MaxPages} \cup LongDocPages}

\* rapidocr / fitz: the module imports; engine_ok: RapidOCR() constructs
OcrEnvs ==
    { [rapidocr |-> TRUE, fitz |-> TRUE, engine_ok |-> TRUE],
      [rapidocr |-> FALSE, fitz |-> TRUE, engine_ok |-> TRUE],
      [rapidocr |-> TRUE, fitz |-> FALSE, engine_ok |-> TRUE],
      [rapidocr |-> TRUE, fitz |-> TRUE, engine_ok |-> FALSE] }

\* str(e) of an exception a library raises; "" is an exception without message
ExcMessages == {"", "cannot process"}

OpenError == "no such file: 'doc.pdf'"

Traceback == "Traceback (most recent call last): ..."

(***************************************************************************)
(* docling_ocr_wrapper.py                                                  *)
(***************************************************************************)
MinEmbeddedPage == 50

OcrShort == 200

EmbeddedLong == 200

FallbackBelow == 100

Min(a, b) == IF a < b THEN a ELSE b

Range(f) == {f[i] : i \in DOMAIN f}

\* dict.get(key, default)
Get(d, key, default) == IF key \in DOMAIN d THEN d[key] ELSE default

RAPIDOCR_AVAILABLE == env.rapidocr /\ env.fitz

IMPORT_ERROR ==
    IF env.rapidocr THEN "No module named 'fitz'"
    ELSE "No module named 'rapidocr_onnxruntime'"

OcrUnavailable ==
    [markdown |-> "", tables |-> <<>>, pages |-> 0, images |-> <<>>,
     success |-> FALSE, error |-> "RapidOCR not available: " \o IMPORT_ERROR]

OcrFailed(msg) ==
    [markdown |-> "", tables |-> <<>>, pages |-> 0, images |-> <<>>,
     success |-> FALSE,
     error |-> "RapidOCR conversion failed: " \o msg \o "\n" \o Traceback]

OcrSucceeded(md, n) ==
    [markdown |-> md, tables |-> <<>>, pages |-> n, images |-> <<>>,
     success |-> TRUE, method |-> "rapidocr"]

OcrHeader(n) == "\n## Page " \o ToString(n + 1) \o "\n\n"

\* what one page adds to all_text when nothing raises
PageTextAlwaysHeader(p, n) ==
    IF p.ocr.kind = "no_result" THEN <<>>
    ELSE IF p.ocr.dets = <<>> THEN <<>>
    ELSE <<OcrHeader(n)>> \o ReconstructLines(p.ocr.dets) \o <<"\n\n">>

PageText(p, n) ==
    IF p.ocr.kind = "no_result" THEN <<>>
    ELSE IF p.ocr.dets = <<>> THEN <<>>
    ELSE LET lines == ReconstructLines(p.ocr.dets)
         IN  IF lines # <<>> THEN <<OcrHeader(n)>> \o lines \o <<"\n\n">> ELSE <<>>

\* the embedded sample of pages n .. last-1 (page_num values)
RECURSIVE SampleFrom(_, _, _)
SampleFrom(pages, n, last) ==
    IF n >= last THEN ""
    ELSE LET text == pages[n + 1].text
         IN  (IF Strip(text) # "" /\ Len(Strip(text)) > MinEmbeddedPage
              THEN "\n\n## Page " \o ToString(n + 1) \o " (Embedded):\n" \o text \o "\n"
              ELSE "")
             \o SampleFrom(pages, n + 1, last)

\* the first page (as a page_num) below last whose get_text raises; last: none
FirstRaising(pages, last) ==
    IF \E n \in 0..(last - 1) : pages[n + 1].text_raises
    THEN CHOOSE n \in 0..(last - 1) :
            /\ pages[n + 1].text_raises
            /\ \A m \in 0..(n - 1) : ~pages[m + 1].text_raises
    ELSE last

\* the supplement rule
SupplementAppend(md, sample) ==
    IF Len(Strip(md)) < OcrShort /\ Len(Strip(sample)) > EmbeddedLong
    THEN md \o "\n\n" \o sample
    ELSE md

Supplement(md, sample) ==
    IF Len(Strip(md)) < OcrShort /\ Len(Strip(sample)) > EmbeddedLong
    THEN sample \o "\n\n" \o md
    ELSE md

\* extract_text_blocks: the pieces of pages n .. (page_num values)
RECURSIVE ExtractPieces(_, _)
ExtractPieces(pages, n) ==
    IF n >= Len(pages) THEN <<>>
    ELSE LET text == pages[n + 1].text
         IN  (IF Strip(text) # ""
              THEN <<"## Page " \o ToString(n + 1) \o "\n\n" \o text \o "\n\n">>
              ELSE <<>>)
             \o ExtractPieces(pages, n + 1)

ExtractSucceeded(pages) ==
    [markdown |-> Join("\n", ExtractPieces(pages, 0)), pages |-> Len(pages),
     success |-> TRUE, method |-> "pymupdf_embedded"]

ExtractFailed(msg) ==
    [markdown |-> "", pages |-> 0, success |-> FALSE, error |-> msg]

\* result = embedded_result; result["fallback"] = "Used embedded text"
WithFallback(r) ==
    [k \in DOMAIN r \cup {"fallback"} |->
        IF k = "fallback" THEN "Used embedded text" ELSE r[k]]

\* whether main replaces result by embedded_result
ReplacesAtLeast(er, r) == Len(Get(er, "markdown", "")) >= Len(Get(r, "markdown", ""))

Replaces(er, r) == Len(Get(er, "markdown", "")) > Len(Get(r, "markdown", ""))

\* whether main runs the embedded extraction
InsufficientOnFailure(r) == ~Get(r, "success", FALSE)

Insufficient(r) ==
    ~Get(r, "success", FALSE) \/ Len(Get(r, "markdown", "")) < FallbackBelow

Returned(fn, value) == Append(returns, [fn |-> fn, value |-> value])

OcrInit ==
    /\ script = "ocr"
    /\ \/ argv = <<>> /\ env \in OcrEnvs /\ doc = [openable |-> FALSE, pages |-> <<>>]
       \/ argv = <<"doc.pdf">> /\ env \in OcrEnvs /\ doc \in Documents
    /\ pc = "ocr_main"
    /\ detections = <<>>
    /\ LinesIdle
    /\ ProgramIdle

\* __main__, the argument check
OcrMain ==
    /\ pc = "ocr_main"
    /\ IF Len(argv) < 1
       THEN /\ stdout' = Append(stdout,
                    [error |-> "Usage: python docling_ocr_wrapper.py <pdf_file>"])
            /\ exit_code' = <<1>>
            /\ pc' = "exited"
       ELSE /\ pc' = "ocr_convert"
            /\ UNCHANGED <<stdout, exit_code>>
    /\ UNCHANGED <<inputVars, lineVars, ocrVars, options, result, stderr, exc, histVars>>

\* convert_with_ocr up to the page loop
OcrConvertOpen ==
    /\ pc = "ocr_convert"
    /\ \/ /\ ~RAPIDOCR_AVAILABLE
          /\ result' = OcrUnavailable
          /\ returns' = Returned("convert_with_ocr", OcrUnavailable)
          /\ pc' = "ocr_select"
          /\ UNCHANGED <<ocrVars, stderr>>
       \/ /\ RAPIDOCR_AVAILABLE /\ ~env.engine_ok
          /\ \E msg \in ExcMessages :
                /\ result' = OcrFailed(msg)
                /\ returns' = Returned("convert_with_ocr", OcrFailed(msg))
          /\ pc' = "ocr_select"
          /\ UNCHANGED <<ocrVars, stderr>>
       \/ /\ RAPIDOCR_AVAILABLE /\ env.engine_ok /\ ~doc.openable
          /\ result' = OcrFailed(OpenError)
          /\ returns' = Returned("convert_with_ocr", OcrFailed(OpenError))
          /\ pc' = "ocr_select"
          /\ UNCHANGED <<ocrVars, stderr>>
       \/ /\ RAPIDOCR_AVAILABLE /\ env.engine_ok /\ doc.openable
          /\ handles' = handles + 1
          /\ page_count' = Len(doc.pages)
          /\ stderr' = Append(stderr, "[RapidOCR] Processing pages...")
          /\ all_text' = <<>>
          /\ page_num' = 0
          /\ pc' = "ocr_page"
          /\ UNCHANGED <<markdown, ocr_markdown, embedded_text, sample_read,
                         embedded_result, result, returns>>
    /\ UNCHANGED <<inputVars, lineVars, options, stdout, exit_code, exc, propagated>>

\* one iteration of the page loop
OcrPage ==
    /\ pc = "ocr_page"
    /\ page_num < page_count
    /\ LET p == doc.pages[page_num + 1]
       IN  \/ /\ p.ocr.kind = "raster_raises"
              /\ \E msg \in ExcMessages :
                    /\ result' = OcrFailed(msg)
                    /\ returns' = Returned("convert_with_ocr", OcrFailed(msg))
              /\ pc' = "ocr_select"
              /\ UNCHANGED <<page_num, all_text, stderr>>
           \/ /\ p.ocr.kind \in {"ocr_raises", "malformed"}
              /\ stderr' = Append(stderr, "[RapidOCR] Warning: Failed to process page")
              /\ page_num' = page_num + 1
              /\ UNCHANGED <<pc, all_text, result, returns>>
           \/ /\ p.ocr.kind \in {"no_result", "detections"}
              /\ all_text' = all_text \o PageText(p, page_num)
              /\ page_num' = page_num + 1
              /\ UNCHANGED <<pc, result, returns, stderr>>
    /\ UNCHANGED <<inputVars, lineVars, page_count, markdown, ocr_markdown,
                   embedded_text, sample_read, embedded_result, handles, options,
                   stdout, exit_code, exc, propagated>>

\* after the loop: pdf.close() and the join
OcrJoin ==
    /\ pc = "ocr_page"
    /\ page_num = page_count
    /\ handles' = handles - 1
    /\ markdown' = Join("\n", all_text)
    /\ ocr_markdown' = Join("\n", all_text)
    /\ pc' = "ocr_sample"
    /\ UNCHANGED <<inputVars, lineVars, page_num, page_count, all_text,
                   embedded_text, sample_read, embedded_result, options, result,
                   ioVars, histVars>>

\* the embedded sample, the supplement rule and the return
OcrSample ==
    /\ pc = "ocr_sample"
    /\ LET last == Min(page_count, SamplePages)
           stop == FirstRaising(doc.pages, last)
           sample == SampleFrom(doc.pages, 0, stop)
           md == IF stop < last THEN markdown ELSE Supplement(markdown, sample)
       IN  /\ embedded_text' = sample
           /\ sample_read' = (stop = last)
           /\ handles' = IF stop < last THEN handles + 1 ELSE handles
           /\ markdown' = md
           /\ stderr' = IF md # markdown
                        THEN Append(stderr, "[RapidOCR] Combined with embedded text")
                        ELSE stderr
           /\ result' = OcrSucceeded(md, page_count)
           /\ returns' = Returned("convert_with_ocr", OcrSucceeded(md, page_count))
    /\ pc' = "ocr_select"
    /\ UNCHANGED <<inputVars, lineVars, page_num, page_count, all_text,
                   ocr_markdown, embedded_result, options, stdout, exit_code,
                   exc, propagated>>

\* __main__: is the OCR result enough?
OcrSelect ==
    /\ pc = "ocr_select"
    /\ IF Insufficient(result)
       THEN /\ stderr' = Append(stderr, "[RapidOCR] Result insufficient")
            /\ pc' = "ocr_extract"
       ELSE /\ pc' = "ocr_print"
            /\ UNCHANGED stderr
    /\ UNCHANGED <<inputVars, lineVars, ocrVars, options, result, stdout,
                   exit_code, exc, histVars>>

\* extract_text_blocks and the choice between the two results
OcrExtract ==
    /\ pc = "ocr_extract"
    /\ \E er \in
            IF ~env.fitz THEN {ExtractFailed("No module named 'fitz'")}
            ELSE IF ~doc.openable THEN {ExtractFailed(OpenError)}
            ELSE IF FirstRaising(doc.pages, Len(doc.pages)) < Len(doc.pages)
            THEN {ExtractFailed(msg) : msg \in ExcMessages}
            ELSE {ExtractSucceeded(doc.pages)} :
          /\ embedded_result' = er
          /\ returns' = Returned("extract_text_blocks", er)
          /\ result' = IF Replaces(er, result) THEN WithFallback(er) ELSE result
    /\ handles' = IF env.fitz /\ doc.openable
                     /\ FirstRaising(doc.pages, Len(doc.pages)) < Len(doc.pages)
                  THEN handles + 1 ELSE handles
    /\ pc' = "ocr_print"
    /\ UNCHANGED <<inputVars, lineVars, page_num, page_count, all_text, markdown,
                   ocr_markdown, embedded_text, sample_read, options, ioVars,
                   propagated>>

\* print(json.dumps(result)) and the end of the script
OcrPrint ==
    /\ pc = "ocr_print"
    /\ stdout' = Append(stdout, result)
    /\ exit_code' = <<0>>
    /\ pc' = "exited"
    /\ UNCHANGED <<inputVars, lineVars, ocrVars, options, result, stderr, exc, histVars>>

(***************************************************************************)
(* Arguments and library behaviour of the two docling wrappers             *)
(***************************************************************************)
\* a parsed JSON value: its Python type and its content
Json(type, items) == [type |-> type, items |-> items]

\* the content of {}
NoItems == [k \in {} |-> TRUE]

EmptyDict == Json("dict", NoItems)

EmptyList == Json("list", <<>>)

JsonTexts == {"{bad", "{}", "{\"ocr\": false}", "5", "[\"title\"]"}

\* json.loads: Parsed(value) or a JSONDecodeError
Parsed(value) == [ok |-> TRUE, value |-> value]

JsonLoads(text) ==
    CASE text = "{}" -> Parsed(EmptyDict)
      [] text = "{\"ocr\": false}" -> Parsed(Json("dict", [ocr |-> FALSE]))
      [] text = "5" -> Parsed(Json("int", 5))
      [] text = "[\"title\"]" -> Parsed(Json("list", <<"title">>))
      [] OTHER -> [ok |-> FALSE, msg |-> "Expecting property name enclosed in double quotes"]

\* bool(value)
Truthy(v) ==
    CASE v.type = "int" -> v.items # 0
      [] v.type = "dict" -> DOMAIN v.items # {}
      [] OTHER -> Len(v.items) > 0

DoclingArgvs ==
    {<<>>, <<"--version">>, <<"bogus">>}
    \cup {<<op>> : op \in {"convert", "extract"}}
    \cup {<<op, "doc.pdf">> : op \in {"convert", "extract"}}
    \cup {<<op, "doc.pdf", j>> : op \in {"convert", "extract"}, j \in JsonTexts}

\* what DocumentConverter().convert(path) and the exports do
ConvOk(md) ==
    [kind |-> "ok", markdown |-> md, pages |-> 1,
     tables |-> <<[markdown |-> "| a |", rows |-> 1, cols |-> 1]>>, images |-> <<>>]

ConvRaise(type, msg) == [kind |-> "raise", type |-> type, msg |-> msg]

ConvOutcomes ==
    { ConvOk("# Title"),
      ConvRaise("FileNotFoundError", "[Errno 2] No such file or directory: 'doc.pdf'"),
      ConvRaise("Exception", ""),
      ConvRaise("AttributeError", "'NoneType' object has no attribute 'tolist'") }

\* docling: the import succeeds; conv: the outcome of each conversion attempt
DoclingEnvs == [docling : BOOLEAN, conv : [1..2 -> ConvOutcomes]]

\* "sub in s"
Contains(s, sub) ==
    \E i \in 1..(Len(s) - Len(sub) + 1) : SubSeq(s, i, i + Len(sub) - 1) = sub

NoGet(v) == "'" \o v.type \o "' object has no attribute 'get'"

NotInstalled == "docling not installed. Run: pip install docling"

DoclingInit(name) ==
    /\ script = name
    /\ argv \in DoclingArgvs
    /\ env \in DoclingEnvs
    /\ doc = None
    /\ detections = <<>>
    /\ LinesIdle
    /\ ProgramIdle

(***************************************************************************)
(* apps/api/src/docling/python/docling_wrapper.py                          *)
(***************************************************************************)
\* _error_result
ApiError(error) ==
    [markdown |-> "", tables |-> <<>>, pages |-> 0, images |-> <<>>,
     success |-> FALSE, error |-> error]

\* the value _convert_with_options returns for a conversion that went through
ApiConverted(o, opts) ==
    [markdown |-> o.markdown,
     tables |-> IF Get(opts, "withTables", TRUE) THEN o.tables ELSE <<>>,
     pages |-> o.pages,
     images |-> IF Get(opts, "withImages", TRUE) THEN o.images ELSE <<>>,
     success |-> TRUE]

\* the retry condition of convert_to_markdown's handler
RetriesWithoutOcr(opts, error_msg) ==
    Get(opts, "ocr", TRUE)
    /\ (Contains(error_msg, "tolist") \/ Contains(error_msg, "NoneType"))

ApiInit == /\ DoclingInit("api") /\ pc = "api_main"

\* __main__ up to the call of the operation
ApiMain ==
    /\ pc = "api_main"
    /\ IF Len(argv) < 1
       THEN /\ stdout' = Append(stdout,
                    [error |-> "Usage: docling_wrapper.py <operation> [args]"])
            /\ exit_code' = <<1>>
            /\ pc' = "exited"
            /\ UNCHANGED <<result, options, exc>>
       ELSE LET operation == argv[1]
            IN  /\ UNCHANGED <<stdout, exit_code>>
                /\ CASE operation = "--version" ->
                          /\ result' = [docling_available |-> env.docling,
                                        version |-> "1.0.0"]
                          /\ pc' = "api_print"
                          /\ UNCHANGED <<options, exc>>
                     [] operation \in {"convert", "extract"} /\ Len(argv) < 2 ->
                          /\ result' = [error |-> "Usage: docling_wrapper.py "
                                          \o operation \o " <file_path> "
                                          \o (IF operation = "convert"
                                              THEN "[options_json]"
                                              ELSE "[topics_json]")]
                          /\ pc' = "api_print"
                          /\ UNCHANGED <<options, exc>>
                     [] operation \in {"convert", "extract"} /\ Len(argv) = 2 ->
                          /\ options' = IF operation = "convert" THEN EmptyDict
                                        ELSE EmptyList
                          /\ pc' = "api_" \o operation
                          /\ UNCHANGED <<result, exc>>
                     [] operation \in {"convert", "extract"} /\ Len(argv) > 2 ->
                          LET j == JsonLoads(argv[3])
                          IN  IF j.ok
                              THEN /\ options' = j.value
                                   /\ pc' = "api_" \o operation
                                   /\ UNCHANGED <<result, exc>>
                              ELSE /\ exc' = <<j.msg>>
                                   /\ pc' = "api_except"
                                   /\ UNCHANGED <<result, options>>
                     [] OTHER ->
                          /\ result' = [error |-> "Unknown operation: " \o operation]
                          /\ pc' = "api_print"
                          /\ UNCHANGED <<options, exc>>
    /\ UNCHANGED <<inputVars, lineVars, ocrVars, stderr, histVars>>

\* convert_to_markdown: the first attempt and its handler
ApiConvert ==
    /\ pc = "api_convert"
    /\ LET o == env.conv[1]
           opts == IF Truthy(options) THEN options.items ELSE NoItems
       IN  \/ /\ ~env.docling
              /\ result' = ApiError(NotInstalled)
              /\ returns' = Returned("convert_to_markdown", ApiError(NotInstalled))
              /\ pc' = "api_print"
              /\ UNCHANGED <<options, exc, stderr, propagated>>
           \/ \* options.copy() on a value that has no copy()
              /\ env.docling /\ Truthy(options) /\ options.type \notin {"dict", "list"}
              /\ exc' = <<"'" \o options.type \o "' object has no attribute 'copy'">>
              /\ propagated' = propagated \cup {"convert_to_markdown"}
              /\ pc' = "api_except"
              /\ UNCHANGED <<options, result, returns, stderr>>
           \/ \* opts.get(...) on a list, in the conversion or else in the handler
              /\ env.docling /\ Truthy(options) /\ options.type = "list"
              /\ exc' = <<NoGet(options)>>
              /\ propagated' = propagated \cup {"convert_to_markdown"}
              /\ pc' = "api_except"
              /\ UNCHANGED <<options, result, returns, stderr>>
           \/ /\ env.docling /\ (~Truthy(options) \/ options.type = "dict")
              /\ o.kind = "ok"
              /\ result' = ApiConverted(o, opts)
              /\ returns' = Returned("convert_to_markdown", ApiConverted(o, opts))
              /\ pc' = "api_print"
              /\ UNCHANGED <<options, exc, stderr, propagated>>
           \/ /\ env.docling /\ (~Truthy(options) \/ options.type = "dict")
              /\ o.kind = "raise"
              /\ IF RetriesWithoutOcr(opts, o.msg)
                 THEN /\ stderr' = Append(stderr, "OCR conversion failed: " \o o.msg
                                                     \o ", retrying without OCR")
                      /\ options' = Json("dict",
                            [k \in DOMAIN opts \cup {"ocr"} |->
                                IF k = "ocr" THEN FALSE ELSE opts[k]])
                      /\ pc' = "api_retry"
                      /\ UNCHANGED <<result, returns>>
                 ELSE /\ result' = ApiError("Conversion failed: " \o o.msg)
                      /\ returns' = Returned("convert_to_markdown",
                                             ApiError("Conversion failed: " \o o.msg))
                      /\ pc' = "api_print"
                      /\ UNCHANGED <<options, stderr>>
              /\ UNCHANGED <<exc, propagated>>
    /\ UNCHANGED <<inputVars, lineVars, ocrVars, stdout, exit_code>>

\* convert_to_markdown: the second attempt, without OCR
ApiRetry ==
    /\ pc = "api_retry"
    /\ LET o == env.conv[2]
           r == IF o.kind = "ok" THEN ApiConverted(o, options.items)
                ELSE ApiError("Conversion failed with and without OCR: " \o o.msg)
       IN  /\ result' = r
           /\ returns' = Returned("convert_to_markdown", r)
    /\ pc' = "api_print"
    /\ UNCHANGED <<inputVars, lineVars, ocrVars, options, ioVars, propagated>>

\* the labelled fields a topic list asks for
Requested(topics_list) ==
    LET has(t) == IF topics_list.type = "dict" THEN t \in DOMAIN topics_list.items
                  ELSE t \in Range(topics_list.items)
    IN  (IF has("contract_number") \/ has("basic_info") THEN {"contractNumber"} ELSE {})
        \cup (IF has("title") \/ has("basic_info") THEN {"title"} ELSE {})
        \cup (IF has("amount") \/ has("financial") THEN {"contractAmount"} ELSE {})

\* extract_fields; which requested labels the markdown holds is left open
ApiExtract ==
    /\ pc = "api_extract"
    /\ LET o == env.conv[1]
           topics_list == IF Truthy(options) THEN options ELSE EmptyList
           failed(msg) == [fields |-> {}, success |-> FALSE, error |-> msg]
       IN  \E r \in
               IF ~env.docling THEN {failed(NotInstalled)}
               ELSE IF o.kind = "raise" THEN {failed(o.msg)}
               ELSE IF topics_list.type = "int"
               THEN {failed("argument of type 'int' is not iterable")}
               ELSE {[fields |-> found, success |-> TRUE] :
                        found \in SUBSET Requested(topics_list)} :
             /\ result' = r
             /\ returns' = Returned("extract_fields", r)
    /\ pc' = "api_print"
    /\ UNCHANGED <<inputVars, lineVars, ocrVars, options, ioVars, propagated>>

\* print(json.dumps(result)) at the end of the try block
ApiPrint ==
    /\ pc = "api_print"
    /\ stdout' = Append(stdout, result)
    /\ exit_code' = <<0>>
    /\ pc' = "exited"
    /\ UNCHANGED <<inputVars, lineVars, ocrVars, options, result, stderr, exc, histVars>>

\* __main__'s "except Exception"
ApiExcept ==
    /\ pc = "api_except"
    /\ stderr' = stderr \o <<"Error: " \o exc[1], Traceback>>
    /\ stdout' = Append(stdout, ApiError(exc[1] \o "\n" \o Traceback))
    /\ exit_code' = <<1>>
    /\ pc' = "exited"
    /\ UNCHANGED <<inputVars, lineVars, ocrVars, options, result, exc, histVars>>

(***************************************************************************)
(* scripts/docling_wrapper.py                                              *)
(***************************************************************************)
\* error_response
error_response(message) == [error |-> message, success |-> FALSE]

\* the path this script hands to the functions: "" when none was given
CliFilePath == IF Len(argv) > 1 THEN argv[2] ELSE ""

\* the conversion of the path: the empty path is no document
CliOutcome ==
    IF CliFilePath = "" /\ env.conv[1].kind = "ok"
    THEN ConvRaise("Exception", "input is not a file")
    ELSE env.conv[1]

CliInit == /\ DoclingInit("cli") /\ pc = "cli_main"

\* __main__ up to the call of the operation
CliMain ==
    /\ pc = "cli_main"
    /\ exc' = exc
    /\ IF Len(argv) < 1
       THEN /\ stdout' = Append(stdout,
                    error_response("Usage: docling_wrapper.py <operation> [args]"))
            /\ exit_code' = <<1>>
            /\ pc' = "exited"
            /\ UNCHANGED <<result, options, stderr>>
       ELSE LET operation == argv[1]
            IN  IF operation \in {"convert", "extract"}
                THEN LET j == IF Len(argv) > 2 THEN JsonLoads(argv[3])
                              ELSE Parsed(IF operation = "convert" THEN EmptyDict
                                          ELSE EmptyList)
                     IN  IF j.ok
                         THEN /\ options' = j.value
                              /\ pc' = "cli_" \o operation
                              /\ UNCHANGED <<result, stdout, stderr, exit_code>>
                         ELSE \* the JSONDecodeError is not caught: traceback, exit 1
                              /\ stderr' = Append(stderr, Traceback)
                              /\ exit_code' = <<1>>
                              /\ pc' = "exited"
                              /\ UNCHANGED <<result, options, stdout>>
                ELSE /\ result' = error_response("Unknown operation: " \o operation)
                     /\ pc' = "cli_print"
                     /\ UNCHANGED <<options, stdout, stderr, exit_code>>
    /\ UNCHANGED <<inputVars, lineVars, ocrVars, histVars>>

\* convert_to_markdown
CliConvert ==
    /\ pc = "cli_convert"
    /\ LET o == CliOutcome
           opts == IF Truthy(options) THEN options.items ELSE NoItems
           r == IF ~env.docling THEN error_response(NotInstalled)
                ELSE IF Truthy(options) /\ options.type # "dict"
                THEN error_response("Conversion failed: " \o NoGet(options))
                ELSE IF o.kind = "ok"
                THEN [markdown |-> o.markdown,
                      tables |-> IF Get(opts, "withTables", TRUE) THEN o.tables ELSE <<>>,
                      pages |-> o.pages,
                      images |-> IF Get(opts, "withImages", TRUE) THEN o.images ELSE <<>>,
                      success |-> TRUE]
                ELSE IF o.type = "FileNotFoundError"
                THEN error_response("File not found: " \o CliFilePath)
                ELSE error_response("Conversion failed: " \o o.msg)
       IN  /\ result' = r
           /\ returns' = Returned("convert_to_markdown", r)
    /\ pc' = "cli_print"
    /\ UNCHANGED <<inputVars, lineVars, ocrVars, options, ioVars, propagated>>

\* extract_fields
CliExtract ==
    /\ pc = "cli_extract"
    /\ LET o == CliOutcome
           r == IF ~env.docling THEN error_response(NotInstalled)
                ELSE IF o.kind = "ok"
                THEN [fields |-> [markdown |-> o.markdown, topics_requested |-> options],
                      success |-> TRUE]
                ELSE IF o.type = "FileNotFoundError"
                THEN error_response("File not found: " \o CliFilePath)
                ELSE error_response("Extraction failed: " \o o.msg)
       IN  /\ result' = r
           /\ returns' = Returned("extract_fields", r)
    /\ pc' = "cli_print"
    /\ UNCHANGED <<inputVars, lineVars, ocrVars, options, ioVars, propagated>>

\* print(json.dumps(result)) and the end of the script
CliPrint ==
    /\ pc = "cli_print"
    /\ stdout' = Append(stdout, result)
    /\ exit_code' = <<0>>
    /\ pc' = "exited"
    /\ UNCHANGED <<inputVars, lineVars, ocrVars, options, result, stderr, exc, histVars>>

(***************************************************************************)
(* The three scripts                                                       *)
(***************************************************************************)
Init == OcrInit \/ ApiInit \/ CliInit

Next ==
    \/ OcrMain \/ OcrConvertOpen \/ OcrPage \/ OcrJoin \/ OcrSample \/ OcrSelect
    \/ OcrExtract \/ OcrPrint
    \/ ApiMain \/ ApiConvert \/ ApiRetry \/ ApiExtract \/ ApiPrint \/ ApiExcept
    \/ CliMain \/ CliConvert \/ CliExtract \/ CliPrint

Spec == Init /\ [][Next]_vars

(***************************************************************************)
(* Claims about line reconstruction (checked under SpecLines)              *)
(***************************************************************************)
QualifyingOnly(s) == SelectSeq(s, Qualifies)

\* indices of the consumed items that qualify
Kept == {i \in 1..idx : Qualifies(sorted_result[i])}

\* the stripped texts of the items put into line l, in processing order
TextsOfLine(l) ==
    LET pick(i) == line_of[i] = l
        RECURSIVE from(_)
        from(i) == IF i > Len(line_of) THEN <<>>
                   ELSE IF pick(i) THEN <<Strip(sorted_result[i].text)>> \o from(i + 1)
                   ELSE from(i + 1)
    IN  from(1)

\* C4: a detection below the confidence threshold or with blank text adds no
\* text to any line and never sets or moves the anchor: at every point of the
\* loop the lines, the anchor and the open line are those of the consumed
\* items with such detections removed, every line is made of the texts of
\* qualifying items only, and the final lines are those reconstructed from
\* the detection list with such detections removed.
C4_FilterInvariant ==
    /\ pc = "lines_loop" =>
         LET st == LineLoop(LineStart, QualifyingOnly(SubSeq(sorted_result, 1, idx)))
         IN  /\ page_lines = st.page_lines
             /\ current_y = st.current_y
             /\ current_line = st.current_line
             /\ \A i \in 1..idx : (line_of[i] = 0) <=> ~Qualifies(sorted_result[i])
    /\ pc = "lines_done" =>
         /\ page_lines = ReconstructLines(QualifyingOnly(detections))
         /\ \A i \in 1..idx : (line_of[i] = 0) <=> ~Qualifies(sorted_result[i])
         /\ \A l \in 1..Len(page_lines) : page_lines[l] = Join(" ", TextsOfLine(l))

\* C4 witness: a dropped detection at y 0 precedes qualifying ones at 15 and 16
C4_Witness ==
    /\ pc = "lines_done"
    /\ Len(sorted_result) = 3
    /\ ~Qualifies(sorted_result[1]) /\ sorted_result[1].y = 0
    /\ Qualifies(sorted_result[2]) /\ sorted_result[2].y = 15
    /\ Qualifies(sorted_result[3]) /\ sorted_result[3].y = 16
    /\ Len(page_lines) = 1

\* the qualifying item consumed just before item j (0: none)
PrevKept(j) ==
    IF \E i \in Kept : i < j
    THEN CHOOSE i \in Kept : i < j /\ \A k \in Kept : k < j => k <= i
    ELSE 0

\* the anchor of line l: the y of the first item put into it
AnchorOf(l) ==
    sorted_result[CHOOSE i \in Kept : line_of[i] = l
                                     /\ \A k \in Kept : line_of[k] = l => i <= k].y

\* C5 (as claimed): two consecutive qualifying detections share a line when
\* their y values are within 15 of each other and are in different lines
\* when they differ by more than 15.
C5_ConsecutiveLaw ==
    pc = "lines_done" =>
        \A j \in Kept : PrevKept(j) # 0 =>
            LET i == PrevKept(j)
                delta == Abs(sorted_result[j].y - sorted_result[i].y)
            IN  /\ delta <= LineThreshold => line_of[j] = line_of[i]
                /\ delta > LineThreshold => line_of[j] # line_of[i]

\* C5 (amended): a qualifying detection joins the line of the qualifying
\* detection before it exactly when its y is within 15 (15 included) of that
\* line's anchor, the y of the line's first detection, and otherwise opens
\* the next line; consecutive detections more than 15 apart are therefore
\* always in different lines.
C5_AnchorLaw ==
    pc = "lines_done" =>
        \A j \in Kept :
            IF PrevKept(j) = 0 THEN line_of[j] = 1
            ELSE LET i == PrevKept(j)
                     near == Abs(sorted_result[j].y - AnchorOf(line_of[i]))
                                 <= LineThreshold
                 IN  /\ near => line_of[j] = line_of[i]
                     /\ ~near => line_of[j] = line_of[i] + 1
                     /\ Abs(sorted_result[j].y - sorted_result[i].y) > LineThreshold
                            => line_of[j] # line_of[i]

\* C5 witness: qualifying detections at 0, 15 and 16: 15 joins the line
\* anchored at 0, 16 opens the second line although it is 1 from its neighbour
C5_Witness ==
    /\ pc = "lines_done"
    /\ Len(sorted_result) = 3
    /\ \A i \in 1..3 : Qualifies(sorted_result[i])
    /\ sorted_result[1].y = 0 /\ sorted_result[2].y = 15 /\ sorted_result[3].y = 16
    /\ line_of = <<1, 1, 2>>
    /\ Len(page_lines) = 2

(***************************************************************************)
(* Claims about the OCR script (checked under Spec)                        *)
(***************************************************************************)
OcrRan == script = "ocr" /\ pc = "exited" /\ argv # <<>>

\* the markdown a full embedded extraction of the document yields
EmbeddedYield ==
    IF env.fitz /\ doc.openable
       /\ FirstRaising(doc.pages, Len(doc.pages)) = Len(doc.pages)
    THEN ExtractSucceeded(doc.pages).markdown
    ELSE ""

\* the final result is the embedded result, whole, with the fallback marker
IsEmbeddedResult(r) ==
    /\ DOMAIN r = {"markdown", "pages", "success", "method", "fallback"}
    /\ r.markdown = EmbeddedYield
    /\ r.success = TRUE
    /\ r.method = "pymupdf_embedded"
    /\ r.pages = Len(doc.pages)

\* the final result is the sample followed by the OCR markdown, from rapidocr
IsSupplementedResult(r) ==
    /\ DOMAIN r = {"markdown", "tables", "pages", "images", "success", "method"}
    /\ r.markdown = embedded_text \o "\n\n" \o ocr_markdown
    /\ r.success = TRUE
    /\ r.method = "rapidocr"

\* C2 (as claimed): when the OCR-derived markdown is under 100 characters and
\* the embedded extraction yields more than it, the final result is the
\* embedded result alone, marked as fallback.
C2_ShortOcrReplaced ==
    (OcrRan /\ Len(ocr_markdown) < FallbackBelow
            /\ Len(EmbeddedYield) > Len(ocr_markdown))
        => IsEmbeddedResult(stdout[1])

\* C2 (amended): when the markdown convert_with_ocr returns (the OCR
\* markdown, with the embedded sample prepended if the supplement rule fired)
\* is under 100 characters and the embedded extraction yields more than it,
\* the final result is the embedded result alone, marked as fallback; when
\* the OCR markdown is under 100 characters and the trimmed sample is over
\* 200, the final result is the sample followed by the OCR markdown, with
\* method rapidocr and no fallback marker.
C2_ShortResultReplaced ==
    OcrRan =>
        /\ (Len(returns[1].value.markdown) < FallbackBelow
            /\ Len(EmbeddedYield) > Len(returns[1].value.markdown))
               => IsEmbeddedResult(stdout[1])
        /\ (sample_read /\ Len(ocr_markdown) < FallbackBelow
            /\ Len(Strip(embedded_text)) > EmbeddedLong)
               => IsSupplementedResult(stdout[1])

\* C2 witness: OCR found "ab", the sample stayed short, extraction replaced it
C2_Witness ==
    /\ OcrRan
    /\ sample_read
    /\ ocr_markdown # "" /\ Len(ocr_markdown) < FallbackBelow
    /\ returns[1].value.markdown = ocr_markdown
    /\ Len(EmbeddedYield) > Len(ocr_markdown)
    /\ "fallback" \in DOMAIN stdout[1]

HasQualifying(p) ==
    /\ p.ocr.kind = "detections"
    /\ \E i \in 1..Len(p.ocr.dets) : Qualifies(p.ocr.dets[i])

\* what the pages n .. last-1 (page_num values) are expected to contribute
RECURSIVE Fragments(_, _, _)
Fragments(pages, n, last) ==
    IF n >= last THEN <<>>
    ELSE (IF HasQualifying(pages[n + 1])
          THEN <<OcrHeader(n)>> \o ReconstructLines(pages[n + 1].ocr.dets) \o <<"\n\n">>
          ELSE <<>>)
         \o Fragments(pages, n + 1, last)

ConvertFns == {"convert_with_ocr", "extract_text_blocks", "convert_to_markdown"}

\* a failed record carries markdown ""
FailedHasEmptyMarkdown(r) ==
    ~r.success => ("markdown" \in DOMAIN r /\ r.markdown = "")

\* C1: every record a convert operation emits (convert_with_ocr,
\* extract_text_blocks, both convert_to_markdown, and the OCR script's final
\* result) with success false has a markdown field equal to "".
C1_FailedHasEmptyMarkdown ==
    /\ \A i \in 1..Len(returns) :
          returns[i].fn \in ConvertFns => FailedHasEmptyMarkdown(returns[i].value)
    /\ OcrRan => FailedHasEmptyMarkdown(stdout[1])

\* C7: a document that cannot be opened, or an exception at engine start, at
\* opening or in document-level processing, gives a result with success false
\* and a non-empty error string, and no exception leaves convert_with_ocr,
\* extract_text_blocks or either convert_to_markdown.
C7_FailureIsReported ==
    /\ propagated \cap ConvertFns = {}
    /\ \A i \in 1..Len(returns) :
          LET r == returns[i] IN
          r.fn \in ConvertFns =>
             /\ ~r.value.success => ("error" \in DOMAIN r.value /\ r.value.error # "")
             /\ (script = "ocr" /\ ~doc.openable) => ~r.value.success
             /\ (script = "ocr" /\ r.fn = "convert_with_ocr" /\ ~env.engine_ok)
                    => ~r.value.success

\* C8: whatever the arguments, the process has written exactly one JSON
\* document to standard output when it exits.
C8_OneJsonDocument == pc = "exited" => Len(stdout) = 1

\* an invocation without operation (for the OCR script: without file), or
\* convert / extract without a file path
UsageError ==
    \/ Len(argv) < 1
    \/ script \in {"api", "cli"} /\ argv[1] \in {"convert", "extract"} /\ Len(argv) < 2

\* C9: the exit code is 1 exactly on a usage error and 0 in every other case.
C9_ExitCode ==
    pc = "exited" => exit_code = IF UsageError THEN <<1>> ELSE <<0>>

\* C10: a failure on one page (rasterization, OCR call, line reconstruction,
\* embedded-text read) does not abort the document: the result has success
\* true and keeps the content of every page that did not fail.
C10_PageFailureSkipped ==
    (script = "ocr" /\ env.rapidocr /\ env.fitz /\ env.engine_ok /\ doc.openable) =>
        \A i \in 1..Len(returns) :
            LET r == returns[i] IN
            /\ r.value.success
            /\ r.fn = "convert_with_ocr" =>
                  ocr_markdown = Join("\n", Fragments(doc.pages, 0, Len(doc.pages)))
            /\ r.fn = "extract_text_blocks" =>
                  \A n \in 0..(Len(doc.pages) - 1) :
                     (~doc.pages[n + 1].text_raises /\ Strip(doc.pages[n + 1].text) # "")
                        => Contains(r.value.markdown,
                                    "## Page " \o ToString(n + 1) \o "\n\n"
                                       \o doc.pages[n + 1].text)

\* the states in which no function of the OCR script is running
BetweenCalls == script = "ocr" /\ pc \in {"ocr_select", "ocr_print", "exited"}

\* C11: every document handle opened by the OCR pass, the sample pass or the
\* embedded extraction is closed before the function that opened it returns,
\* on every path: no handle is open once a result has been returned.
C11_HandlesClosed == BetweenCalls => handles = 0

\* the embedded extraction was run by __main__
ExtractionRan == Len(returns) = 2 /\ returns[2].fn = "extract_text_blocks"

\* C12: the final result carries the fallback marker exactly when the embedded
\* result replaced the OCR result; a result carrying it is the embedded result,
\* has success true and method "pymupdf_embedded" and a markdown strictly
\* longer than the OCR result's; a failed embedded extraction, or one that
\* yields nothing longer, leaves the OCR result (failed or not) unchanged.
C12_FallbackIffReplaced ==
    OcrRan =>
        LET final == stdout[1]
            ocr == returns[1].value
        IN  /\ "fallback" \in DOMAIN final =>
                 /\ ExtractionRan
                 /\ final = WithFallback(returns[2].value)
                 /\ final.fallback = "Used embedded text"
                 /\ final.success = TRUE
                 /\ final.method = "pymupdf_embedded"
                 /\ Len(final.markdown) > Len(ocr.markdown)
            /\ "fallback" \notin DOMAIN final => final = ocr
            /\ ExtractionRan =>
                 LET er == returns[2].value
                 IN  /\ ~er.success => (er.markdown = "" /\ final = ocr)
                     /\ Len(er.markdown) <= Len(ocr.markdown) => final = ocr
                     /\ Len(er.markdown) > Len(ocr.markdown)
                            => "fallback" \in DOMAIN final
            /\ ~ExtractionRan => (ocr.success /\ Len(ocr.markdown) >= FallbackBelow)

\* C12 witness: the OCR conversion failed and the embedded result replaced it
C12_Witness ==
    /\ OcrRan
    /\ ~returns[1].value.success
    /\ ExtractionRan /\ returns[2].value.success
    /\ "fallback" \in DOMAIN stdout[1]
    /\ stdout[1].method = "pymupdf_embedded"

====
